---------------------------- MODULE Spec2Model ----------------------------
(***************************************************************************)
(* A model of the ip2proxy database reader (db.go and its constants).      *)
(*                                                                         *)
(* A uint32 is the pair <<hi, lo>> of its two 16-bit halves, so that every *)
(* sum, difference and product wraps modulo 2^32 exactly as in Go.  A      *)
(* uint8 is an integer in 0..255.  A Go string or []byte is the sequence   *)
(* of its bytes.  A Go error is a sequence of message parts (annotations   *)
(* first), NoErr is a nil error, and Panic is a run-time panic (an index   *)
(* or a slice bound out of range), which unwinds through every caller.     *)
(***************************************************************************)
EXTENDS Integers, Sequences, FiniteSets, TLC

(***************************************************************************)
(* Bounds of the model.                                                    *)
(***************************************************************************)
\* Number of 16-bit address prefixes the index table is modelled for (the
\* source has 65536 of them); queried addresses lie in these prefixes.
NumPrefixes == 2

(***************************************************************************)
(* uint32 and uint8 arithmetic.                                            *)
(***************************************************************************)
\* 2^16: a uint32 is hi * Half + lo
Half == 2 ^ 16

U32(n) == <<n \div Half, n % Half>>

u32Add(a, b) ==
  LET lo == a[2] + b[2]
      hi == a[1] + b[1] + (lo \div Half)
  IN  <<hi % Half, lo % Half>>

u32Sub(a, b) ==
  LET lo == a[2] - b[2]
      hi == a[1] - b[1] - (IF lo < 0 THEN 1 ELSE 0)
  IN  <<(hi + 2 * Half) % Half, (lo + Half) % Half>>

\* a * uint32(k) for a uint8 k
u32Mul(a, k) ==
  LET lo == a[2] * k
      hi == a[1] * k + (lo \div Half)
  IN  <<hi % Half, lo % Half>>

u32Div2(a) == <<a[1] \div 2, (a[1] % 2) * (Half \div 2) + (a[2] \div 2)>>

u32Shr16(a) == a[1]

u32Le(a, b) == a[1] < b[1] \/ (a[1] = b[1] /\ a[2] <= b[2])

u32Gt(a, b) == ~u32Le(a, b)

\* uint32 -> int, for the values that index the buffer
u32Int(a) == a[1] * Half + a[2]

\* whether a uint32 is below 2^31, i.e. fits the integers of the checker
u32Small(a) == a[1] < Half \div 2

\* uint8 arithmetic: x << 2 and x - 1 on a uint8
u8Shl2(x) == (x * 4) % 256

u8Dec(x) == (x + 255) % 256

(***************************************************************************)
(* Let(v, F) is F(v) with v evaluated once: the value of a local variable. *)
(***************************************************************************)
Let(v, F(_)) == CHOOSE r \in {F(x) : x \in {v}} : TRUE

(***************************************************************************)
(* Errors.                                                                 *)
(***************************************************************************)
NoErr == <<>>

Panic == <<"panic">>

EOF == <<"EOF">>

\* errors.Annotate(err, msg)
Annotate(err, msg) == <<msg>> \o err

IsPanic(err) == err # NoErr /\ err[Len(err)] = "panic"

\* errors.Annotate, which a panic passes by
AnnotateErr(err, msg) == IF IsPanic(err) THEN Panic ELSE Annotate(err, msg)

(***************************************************************************)
(* Constants of the package.                                               *)
(***************************************************************************)
UnknownDbType == 0

PX1 == 1

PX2 == 2

PX3 == 3

PX4 == 4

ProxyNA == 0

ProxyNOT == 1

ProxyVPN == 2

ProxyTOR == 3

ProxyDCH == 4

ProxyPUB == 5

ProxyWEB == 6

\* Field indexes, by db type 0..4 (a Go slice is indexed from 0)
countryPos == <<0, 2, 3, 3, 3>>

regionPos == <<0, 0, 0, 4, 4>>

cityPos == <<0, 0, 0, 5, 5>>

ispPos == <<0, 0, 0, 0, 6>>

proxytypePos == <<0, 0, 2, 2, 2>>

\* Maximum index count: 65536 in the source, NumPrefixes in the model
maxIndexes == NumPrefixes

(***************************************************************************)
(* Byte reader.  d is a DB: d.data is the buffer, d.dataSize its length    *)
(* as a uint32.  A read returns [val, err].                                *)
(***************************************************************************)
Byte(d, i) == d.data[i + 1]

\* fileEndianness.Uint32(bin) for bin = data[i : i+4]
LittleEndianUint32(d, i) ==
  <<Byte(d, i + 3) * 256 + Byte(d, i + 2), Byte(d, i + 1) * 256 + Byte(d, i)>>

readUint8(d, pos) ==
  IF u32Gt(pos, u32Sub(d.dataSize, U32(1)))
  THEN [val |-> 0, err |-> EOF]
  ELSE IF ~u32Small(pos) \/ u32Int(pos) >= Len(d.data)
       THEN [val |-> 0, err |-> Panic]
       ELSE [val |-> Byte(d, u32Int(pos)), err |-> NoErr]

readUint32(d, pos) ==
  IF u32Gt(pos, u32Sub(d.dataSize, U32(4)))
  THEN [val |-> U32(0), err |-> EOF]
  ELSE IF ~u32Small(pos) \/ u32Int(pos) + 4 > Len(d.data)
       THEN [val |-> U32(0), err |-> Panic]
       ELSE [val |-> LittleEndianUint32(d, u32Int(pos)), err |-> NoErr]

(***************************************************************************)
(* Header.  Each step returns [hdr, err]: the header as assigned so far.   *)
(***************************************************************************)
EmptyHeader ==
  [Count |-> U32(0), BaseAddr |-> U32(0), IndexBaseAddr |-> U32(0),
   Type |-> UnknownDbType, Cols |-> 0, Year |-> 0, Month |-> 0, Day |-> 0,
   IPv4ColumnSize |-> 0]

readHeaderDate(d, h) ==
  Let(readUint8(d, U32(2)), LAMBDA year :
    IF year.err # NoErr THEN [hdr |-> h, err |-> year.err]
    ELSE Let(readUint8(d, U32(3)), LAMBDA month :
      IF month.err # NoErr
      THEN [hdr |-> [h EXCEPT !.Year = 2000 + year.val, !.Month = month.val],
            err |-> month.err]
      ELSE Let(readUint8(d, U32(4)), LAMBDA day :
        [hdr |-> [h EXCEPT !.Year = 2000 + year.val, !.Month = month.val,
                           !.Day = day.val],
         err |-> day.err])))

\* readHeaderCounts without its checks of Cols and Count
readHeaderCountsUnchecked(d, h) ==
  Let(readUint8(d, U32(1)), LAMBDA cols :
    Let(readUint32(d, U32(5)), LAMBDA count :
      [hdr |-> [h EXCEPT !.Cols = cols.val, !.Count = count.val,
                         !.IPv4ColumnSize = u8Shl2(cols.val)],
       err |-> IF cols.err # NoErr THEN cols.err ELSE count.err]))

readHeaderCounts(d, h) ==
  Let(readUint8(d, U32(1)), LAMBDA cols :
    IF cols.err # NoErr THEN [hdr |-> [h EXCEPT !.Cols = cols.val], err |-> cols.err]
    ELSE IF cols.val <= 0
    THEN [hdr |-> [h EXCEPT !.Cols = cols.val], err |-> <<"invalid db format">>]
    ELSE Let(readUint32(d, U32(5)), LAMBDA count :
      IF count.err # NoErr
      THEN [hdr |-> [h EXCEPT !.Cols = cols.val, !.Count = count.val], err |-> count.err]
      ELSE IF u32Le(count.val, U32(1))
      THEN [hdr |-> [h EXCEPT !.Cols = cols.val, !.Count = count.val],
            err |-> <<"invalid db format">>]
      ELSE [hdr |-> [h EXCEPT !.Cols = cols.val, !.Count = count.val,
                              !.IPv4ColumnSize = u8Shl2(cols.val)],
            err |-> NoErr]))

readHeaderAddrs(d, h) ==
  Let(readUint32(d, U32(9)), LAMBDA base :
    IF base.err # NoErr THEN [hdr |-> [h EXCEPT !.BaseAddr = base.val], err |-> base.err]
    ELSE Let(readUint32(d, U32(21)), LAMBDA idx :
      [hdr |-> [h EXCEPT !.BaseAddr = base.val, !.IndexBaseAddr = idx.val],
       err |-> idx.err]))

readHeader(d) ==
  Let(readUint8(d, U32(0)), LAMBDA t :
    IF t.err # NoErr THEN [hdr |-> EmptyHeader, err |-> t.err]
    ELSE IF t.val \notin {PX1, PX2, PX3, PX4}
    THEN [hdr |-> [EmptyHeader EXCEPT !.Type = UnknownDbType],
          err |-> <<"invalid db format or unknown db type">>]
    ELSE Let(readHeaderDate(d, [EmptyHeader EXCEPT !.Type = t.val]), LAMBDA r1 :
      IF r1.err # NoErr THEN r1
      ELSE Let(readHeaderCounts(d, r1.hdr), LAMBDA r2 :
        IF r2.err # NoErr THEN r2
        ELSE readHeaderAddrs(d, r2.hdr))))

\* positions according to db type
computePositions(h) ==
  LET at(tbl) == tbl[h.Type + 1]
      pos(tbl) == IF at(tbl) # 0 THEN u8Shl2(u8Dec(at(tbl))) ELSE 0
  IN  [Country |-> pos(countryPos), Region |-> pos(regionPos),
       City |-> pos(cityPos), ISP |-> pos(ispPos), Proxy |-> pos(proxytypePos)]

(***************************************************************************)
(* Index table.  The loop of readIPv4Indexes: l = [i, pos, ix] is the      *)
(* entry to read next, its position, and the entries stored so far.        *)
(***************************************************************************)
ZeroIndexes == [i \in 0 .. maxIndexes - 1 |-> <<U32(0), U32(0)>>]

RECURSIVE readIPv4IndexesLoop(_, _)
readIPv4IndexesLoop(d, l) ==
  IF l.i >= maxIndexes THEN [ix |-> l.ix, err |-> NoErr]
  ELSE Let(readUint32(d, u32Sub(l.pos, U32(1))), LAMBDA start :
    IF start.err # NoErr THEN [ix |-> l.ix, err |-> start.err]
    ELSE Let(readUint32(d, u32Add(l.pos, U32(3))), LAMBDA end :
      IF end.err # NoErr THEN [ix |-> l.ix, err |-> end.err]
      ELSE Let([i |-> l.i + 1, pos |-> u32Add(l.pos, U32(8)),
                ix |-> [j \in 0 .. maxIndexes - 1 |->
                          IF j = l.i THEN <<start.val, end.val>> ELSE l.ix[j]]],
               LAMBDA l2 : readIPv4IndexesLoop(d, l2))))

readIPv4Indexes(d) ==
  Let([i |-> 0, pos |-> d.header.IndexBaseAddr, ix |-> ZeroIndexes],
      LAMBDA l : readIPv4IndexesLoop(d, l))

(***************************************************************************)
(* Open.  A file is Unreadable or the sequence of its bytes.  The result   *)
(* is [db, err] with db = NoDB when an error is returned.                  *)
(***************************************************************************)
Unreadable == <<-1>>

NoDB == [open |-> FALSE]

Open(f) ==
  IF f = Unreadable
  THEN [db |-> NoDB, err |-> <<"cannot open/read db file", "open">>]
  ELSE IF Len(f) = 0
  THEN [db |-> NoDB, err |-> <<"cannot open/read db file", "is empty or not redable">>]
  ELSE
    Let([open |-> TRUE, data |-> f, dataSize |-> U32(Len(f)), header |-> EmptyHeader,
         positions |-> [Country |-> 0, Region |-> 0, City |-> 0, ISP |-> 0, Proxy |-> 0],
         ipv4Indexes |-> ZeroIndexes], LAMBDA d0 :
      Let(readHeader(d0), LAMBDA hr :
        IF hr.err # NoErr
        THEN [db |-> NoDB, err |-> AnnotateErr(hr.err, "cannot read db header")]
        ELSE Let([d0 EXCEPT !.header = hr.hdr,
                            !.positions = computePositions(hr.hdr)], LAMBDA d2 :
          Let(readIPv4Indexes(d2), LAMBDA ir :
            IF ir.err # NoErr
            THEN [db |-> NoDB, err |-> AnnotateErr(ir.err, "cannot read db index")]
            ELSE [db |-> [d2 EXCEPT !.ipv4Indexes = ir.ix], err |-> NoErr]))))

(***************************************************************************)
(* Strings of the pool.  readByteSlice returns [val, err]; a nil slice and *)
(* the empty string are both <<>>.                                         *)
(***************************************************************************)
readByteSlice(d, pos) ==
  IF u32Gt(pos, u32Sub(d.dataSize, U32(1)))
  THEN [val |-> <<>>, err |-> EOF]
  ELSE Let(readUint8(d, pos), LAMBDA size :
    IF size.err # NoErr THEN [val |-> <<>>, err |-> size.err]
    ELSE IF size.val = 0 THEN [val |-> <<>>, err |-> NoErr]
    ELSE IF u32Gt(u32Add(pos, U32(size.val)), d.dataSize)
    THEN [val |-> <<>>, err |-> EOF]
    \* b[i] = data[pos+uint32(1+i)] for i = 0 .. size-1
    ELSE IF \E i \in 0 .. size.val - 1 :
              \/ ~u32Small(u32Add(pos, U32(1 + i)))
              \/ u32Int(u32Add(pos, U32(1 + i))) >= Len(d.data)
    THEN [val |-> <<>>, err |-> Panic]
    ELSE [val |-> SubSeq(d.data, u32Int(pos) + 2, u32Int(pos) + 1 + size.val),
          err |-> NoErr])

readStr(d, pos) == readByteSlice(d, pos)

(***************************************************************************)
(* Range search.  The loop of findPosForIPV4: w = [low, high, seen, reads] *)
(* is the window, the windows of the earlier iterations, and the offsets   *)
(* passed to readUint32 so far.  A window that comes back is a loop that   *)
(* never ends: the call does not return (Hang).                            *)
(***************************************************************************)
Hang == <<"hang">>

\* a match test that holds at the two ends of a row only
rowContainsEnds(ipFrom, ipTo, ip) == ipFrom = ip \/ ipTo = ip

\* ipFrom <= ip && ipTo >= ip
rowContains(ipFrom, ipTo, ip) == u32Le(ipFrom, ip) /\ u32Le(ip, ipTo)

\* mid := (low + high) / 2
midOf(low, high) == u32Div2(u32Add(low, high))

\* rowOffset := BaseAddr + mid*IPv4ColumnSize - 1
rowOffsetOf(d, mid) ==
  u32Sub(u32Add(d.header.BaseAddr, u32Mul(mid, d.header.IPv4ColumnSize)), U32(1))

RECURSIVE findPosLoop(_, _, _)
findPosLoop(d, ip, w) ==
  IF ~u32Le(w.low, w.high) THEN [pos |-> U32(0), err |-> NoErr, reads |-> w.reads]
  ELSE IF <<w.low, w.high>> \in w.seen
  THEN [pos |-> U32(0), err |-> Hang, reads |-> w.reads]
  ELSE
    Let(midOf(w.low, w.high), LAMBDA mid :
    Let(rowOffsetOf(d, mid), LAMBDA rowOffset :
    Let(readUint32(d, rowOffset), LAMBDA ipFrom :
      IF ipFrom.err # NoErr
      THEN [pos |-> U32(0), err |-> AnnotateErr(ipFrom.err, "cannot read db index"),
            reads |-> Append(w.reads, rowOffset)]
      ELSE
        Let(u32Add(rowOffset, U32(d.header.IPv4ColumnSize)), LAMBDA toOffset :
        Let(readUint32(d, toOffset), LAMBDA ipTo :
          IF ipTo.err # NoErr
          THEN [pos |-> U32(0), err |-> AnnotateErr(ipTo.err, "cannot read db index"),
                reads |-> w.reads \o <<rowOffset, toOffset>>]
          ELSE IF rowContains(ipFrom.val, ipTo.val, ip)
          THEN [pos |-> rowOffset, err |-> NoErr,
                reads |-> w.reads \o <<rowOffset, toOffset>>]
          ELSE
            Let([low |-> IF u32Gt(ipFrom.val, ip) THEN w.low ELSE u32Add(mid, U32(1)),
                 high |-> IF u32Gt(ipFrom.val, ip) THEN u32Sub(mid, U32(1)) ELSE w.high,
                 seen |-> w.seen \cup {<<w.low, w.high>>},
                 reads |-> w.reads \o <<rowOffset, toOffset>>],
                LAMBDA w2 : findPosLoop(d, ip, w2)))))))

findPosForIPV4(d, ip) ==
  Let([low |-> d.ipv4Indexes[u32Shr16(ip)][1], high |-> d.ipv4Indexes[u32Shr16(ip)][2],
       seen |-> {}, reads |-> <<>>],
      LAMBDA w : findPosLoop(d, ip, w))

(***************************************************************************)
(* Record decoder.  A *string is <<>> (nil) or <<s>>.  Each readRecord     *)
(* step returns [res, err, reads]: reads are the positions of the column   *)
(* pointers it read.                                                       *)
(***************************************************************************)
EmptyResult ==
  [IP |-> <<>>, Country |-> <<>>, CountryCode |-> <<>>, City |-> <<>>,
   ISP |-> <<>>, Region |-> <<>>, Proxy |-> ProxyNA]

\* a mapping that takes the lower-case "tor" for TOR as well
proxyNameToProxyTypeAnyCase(name) ==
  CASE name = <<45>> -> ProxyNOT
    [] name = <<86, 80, 78>> -> ProxyVPN
    [] name = <<84, 79, 82>> \/ name = <<116, 111, 114>> -> ProxyTOR
    [] name = <<68, 67, 72>> -> ProxyDCH
    [] name = <<80, 85, 66>> -> ProxyPUB
    [] name = <<87, 69, 66>> -> ProxyWEB
    [] OTHER -> ProxyNA

\* get proxy type according to name
proxyNameToProxyType(name) ==
  CASE name = <<45>> -> ProxyNOT
    [] name = <<86, 80, 78>> -> ProxyVPN
    [] name = <<84, 79, 82>> -> ProxyTOR
    [] name = <<68, 67, 72>> -> ProxyDCH
    [] name = <<80, 85, 66>> -> ProxyPUB
    [] name = <<87, 69, 66>> -> ProxyWEB
    [] OTHER -> ProxyNA

getIPV4ByteOffset(d, field, baseOffset) ==
  LET ty == d.header.Type + 1
      idx(tbl) == u8Shl2(u8Dec(tbl[ty]))
  IN  CASE field = "proxy" -> u32Add(baseOffset, U32(idx(proxytypePos)))
        [] field = "country" -> u32Add(baseOffset, U32(idx(countryPos)))
        [] field = "region" -> u32Add(baseOffset, U32(idx(regionPos)))
        [] field = "city" -> u32Add(baseOffset, U32(idx(cityPos)))
        [] field = "isp" -> u32Add(baseOffset, U32(idx(ispPos)))
        [] OTHER -> U32(0)

readRecordProxy(d, res, off) ==
  IF d.positions.Proxy # 0
  THEN Let(u32Sub(getIPV4ByteOffset(d, "proxy", off), U32(1)), LAMBDA at :
       Let(readUint32(d, at), LAMBDA addr :
         IF addr.err # NoErr THEN [res |-> res, err |-> addr.err, reads |-> <<at>>]
         ELSE Let(readStr(d, addr.val), LAMBDA b :
           IF b.err # NoErr THEN [res |-> res, err |-> b.err, reads |-> <<at>>]
           ELSE [res |-> [res EXCEPT !.Proxy = proxyNameToProxyType(b.val)],
                 err |-> NoErr, reads |-> <<at>>])))
  ELSE [res |-> [res EXCEPT !.Proxy = ProxyNA], err |-> NoErr, reads |-> <<>>]

readRecordCountry(d, res, off) ==
  Let(u32Sub(getIPV4ByteOffset(d, "country", off), U32(1)), LAMBDA at :
  Let(readUint32(d, at), LAMBDA pos :
    IF pos.err # NoErr THEN [res |-> res, err |-> pos.err, reads |-> <<at>>]
    ELSE Let(readStr(d, pos.val), LAMBDA short :
      IF short.err # NoErr THEN [res |-> res, err |-> short.err, reads |-> <<at>>]
      ELSE Let(readStr(d, u32Add(pos.val, U32(3))), LAMBDA long :
        IF long.err # NoErr THEN [res |-> res, err |-> long.err, reads |-> <<at>>]
        ELSE [res |-> [res EXCEPT
                         !.CountryCode = IF short.val # <<>> /\ short.val # <<45>>
                                         THEN <<short.val>> ELSE @,
                         !.Country = IF long.val # <<>> /\ long.val # <<45>>
                                     THEN <<long.val>> ELSE @],
              err |-> NoErr, reads |-> <<at>>]))))

\* readRecordRegion, readRecordCity and readRecordISP: the same code for
\* field "region", "city", "isp" and the Result's Region, City, ISP
readRecordField(d, res, off, field, name) ==
  Let(u32Sub(getIPV4ByteOffset(d, field, off), U32(1)), LAMBDA at :
  Let(readUint32(d, at), LAMBDA pos :
    IF pos.err # NoErr THEN [res |-> res, err |-> pos.err, reads |-> <<at>>]
    ELSE Let(readStr(d, pos.val), LAMBDA s :
      IF s.err # NoErr THEN [res |-> res, err |-> s.err, reads |-> <<at>>]
      ELSE [res |-> IF s.val # <<>> /\ s.val # <<45>>
                    THEN [res EXCEPT ![name] = <<s.val>>] ELSE res,
            err |-> NoErr, reads |-> <<at>>])))

readRecordRegion(d, res, off) == readRecordField(d, res, off, "region", "Region")

readRecordCity(d, res, off) == readRecordField(d, res, off, "city", "City")

readRecordISP(d, res, off) == readRecordField(d, res, off, "isp", "ISP")

NoResult == [nil |-> TRUE]

\* one field decode, for the record of what the call did
Step(field, x) == [field |-> field, err |-> x.err, reads |-> x.reads]

\* reads a record: [res, err, steps], steps the field decodes made, in order
readIPV4Record(d, off) ==
  Let(readRecordProxy(d, EmptyResult, off), LAMBDA p :
    IF p.err # NoErr
    THEN [res |-> NoResult, err |-> p.err, steps |-> <<Step("proxy", p)>>]
    ELSE Let(readRecordCountry(d, p.res, off), LAMBDA c :
      IF c.err # NoErr
      THEN [res |-> NoResult, err |-> c.err,
            steps |-> <<Step("proxy", p), Step("country", c)>>]
      ELSE Let(readRecordRegion(d, c.res, off), LAMBDA r :
        IF r.err # NoErr
        THEN [res |-> NoResult, err |-> r.err,
              steps |-> <<Step("proxy", p), Step("country", c), Step("region", r)>>]
        ELSE Let(readRecordCity(d, r.res, off), LAMBDA t :
          IF t.err # NoErr
          THEN [res |-> NoResult, err |-> t.err,
                steps |-> <<Step("proxy", p), Step("country", c), Step("region", r),
                            Step("city", t)>>]
          ELSE Let(readRecordISP(d, t.res, off), LAMBDA i :
            [res |-> IF i.err # NoErr THEN NoResult ELSE i.res, err |-> i.err,
             steps |-> <<Step("proxy", p), Step("country", c), Step("region", r),
                         Step("city", t), Step("isp", i)>>])))))

(***************************************************************************)
(* Addresses.                                                              *)
(***************************************************************************)
\* binary.BigEndian.Uint32(b) of the four bytes b[1..4]
BigEndianUint32(b) == <<b[1] * 256 + b[2], b[3] * 256 + b[4]>>

\* unsigned 32 bit number to the four octets of its dotted text
intToIPV4(num) ==
  <<num[1] \div 256, num[1] % 256, num[2] \div 256, num[2] % 256>>

\* a nil net.IP; any other net.IP is the sequence of its bytes
NilIP == <<-1>>

ipV4ToInt(ip) ==
  IF ip = NilIP THEN [val |-> U32(0), err |-> <<"invalid IP">>]
  ELSE IF Len(ip) = 16
       THEN [val |-> BigEndianUint32(SubSeq(ip, 13, 16)), err |-> NoErr]
  ELSE IF Len(ip) < 4 THEN [val |-> U32(0), err |-> Panic]
  ELSE [val |-> BigEndianUint32(ip), err |-> NoErr]

\* net.ParseIP of the standard library, on a text given as what it spells:
\* [form |-> "dotted", parts |-> the decimal numbers between the dots],
\* [form |-> "v6", bytes |-> the 16 bytes of a well-formed IPv6 literal] or
\* [form |-> "junk"].  A dotted text of four numbers <= 255 parses to the
\* 16-byte IPv4-mapped form, an IPv6 literal to its bytes, the rest to nil.
V4InV6Prefix == <<0, 0, 0, 0, 0, 0, 0, 0, 0, 0, 255, 255>>

ParseIP(s) ==
  CASE s.form = "dotted" ->
         IF Len(s.parts) = 4 /\ \A i \in 1 .. 4 : s.parts[i] <= 255
         THEN V4InV6Prefix \o s.parts ELSE NilIP
    [] s.form = "v6" -> s.bytes
    [] OTHER -> NilIP

ipV4Dot2int(ipStr) == ipV4ToInt(ParseIP(ipStr))

(***************************************************************************)
(* Lookups.  A lookup returns [res, err] and, for the properties, what it  *)
(* did: searched (findPosForIPV4 was called), pos (what it returned), the  *)
(* offsets the search read, and the field decodes made.                    *)
(***************************************************************************)
Outcome(res, err, f, steps) ==
  [res |-> res, err |-> err, searched |-> TRUE, pos |-> f.pos, search |-> f.reads,
   steps |-> steps]

lookupIPV4(d, ip) ==
  Let(findPosForIPV4(d, ip), LAMBDA f :
    IF f.err # NoErr THEN Outcome(NoResult, f.err, f, <<>>)
    ELSE IF f.pos = U32(0) THEN Outcome(NoResult, NoErr, f, <<>>)
    ELSE Let(readIPV4Record(d, u32Add(f.pos, U32(1))), LAMBDA rec :
      IF rec.err # NoErr THEN Outcome(NoResult, rec.err, f, rec.steps)
      ELSE Outcome([rec.res EXCEPT !.IP = intToIPV4(ip)], NoErr, f, rec.steps)))

NotSearched(err) ==
  [res |-> NoResult, err |-> err, searched |-> FALSE, pos |-> U32(0),
   search |-> <<>>, steps |-> <<>>]

LookupIPV4(d, ip) ==
  Let(ipV4ToInt(ip), LAMBDA ipnum :
    IF ipnum.err # NoErr THEN NotSearched(ipnum.err) ELSE lookupIPV4(d, ipnum.val))

LookupIPV4Dot(d, ip) ==
  Let(ipV4Dot2int(ip), LAMBDA ipnum :
    IF ipnum.err # NoErr THEN NotSearched(ipnum.err) ELSE lookupIPV4(d, ipnum.val))

LookupIPV4Num(d, ip) == lookupIPV4(d, ip)

(***************************************************************************)
(* The files the model opens.  A file is laid out as the format has it: a  *)
(* header, the index table, the data rows (the last one a sentinel that    *)
(* only closes the row before it), the string pool, then padding.  Each    *)
(* family below changes one thing of the well-formed file.                 *)
(***************************************************************************)
Zeros(n) == SubSeq([i \in 1 .. n |-> 0], 1, n)

\* buf with bytes written at the 0-based offset off (what falls outside is dropped)
Poke(buf, off, bytes) ==
  SubSeq(SubSeq(buf, 1, off) \o bytes \o SubSeq(buf, off + Len(bytes) + 1, Len(buf)),
         1, Len(buf))

LE32(u) == <<u[2] % 256, u[2] \div 256, u[1] % 256, u[1] \div 256>>

RECURSIVE Flatten(_)
Flatten(ss) == IF ss = <<>> THEN <<>> ELSE Head(ss) \o Flatten(Tail(ss))

\* The string pool and the offsets of its strings in it
Pool ==
  <<1, 45>> \o <<3, 86, 80, 78>> \o <<3, 84, 79, 82>> \o <<3, 68, 67, 72>>
  \o <<3, 80, 85, 66>> \o <<3, 87, 69, 66>> \o <<0>> \o <<3, 116, 111, 114>>
  \o <<2, 70, 82, 3, 70, 114, 97>> \o <<1, 45, 0, 1, 45>>
  \o <<2, 82, 49>> \o <<2, 67, 49>> \o <<2, 73, 49>>

PoolAt ==
  [dash |-> 0, VPN |-> 2, TOR |-> 6, DCH |-> 10, PUB |-> 14, WEB |-> 18,
   empty |-> 22, tor |-> 23, FR |-> 27, nocountry |-> 34, R1 |-> 39, C1 |-> 42,
   I1 |-> 45]

ProxyNames == {"dash", "VPN", "TOR", "DCH", "PUB", "WEB", "empty", "tor"}

HeaderLen == 21 + 4

ColsOf(ty) == <<2, 3, 5, 6>>[ty]

Sentinel == <<NumPrefixes - 1, 65535>>

\* fromAddress of rows 0..3 of the well-formed file (row 3 is the sentinel)
GoodFroms(first) == <<U32(first), U32(5), <<1, 3>>, Sentinel>>

\* its index entries: prefix 0 holds rows 0..1, prefix 1 rows 1..2, the rest row 2
GoodIndex ==
  [i \in 1 .. NumPrefixes |->
     IF i = 1 THEN <<U32(0), U32(1)>>
     ELSE IF i = 2 THEN <<U32(1), U32(2)>> ELSE <<U32(2), U32(2)>>]

\* the parameters of the well-formed file of type ty whose rows 1.. have the
\* proxy string px, with pad bytes of padding after the pool
Good(ty, px, first, pad) ==
  [ty |-> ty, cols |-> ColsOf(ty), count |-> U32(4),
   idxAt |-> HeaderLen, ibase |-> U32(HeaderLen + 1),
   rowAt |-> HeaderLen + 8 * NumPrefixes, base |-> U32(HeaderLen + 8 * NumPrefixes + 1),
   index |-> GoodIndex, froms |-> GoodFroms(first), px |-> px, pxAt |-> -1, pad |-> pad]

Width(p) == 4 * p.cols

PoolOff(p) == p.rowAt + Len(p.froms) * Width(p)

FileLen(p) == PoolOff(p) + Len(Pool) + p.pad

\* the bytes of row r: fromAddress, then one pool pointer per column
RowBytes(p, r) ==
  LET ptr(name) == U32(PoolOff(p) + PoolAt[name])
      proxy == IF p.pxAt >= 0 THEN U32(p.pxAt)
               ELSE ptr(IF r = 0 THEN "dash" ELSE p.px)
      col(c) == IF c = 1 THEN p.froms[r + 1]
                ELSE IF p.ty \in 1 .. 4 /\ c = proxytypePos[p.ty + 1] THEN proxy
                ELSE IF p.ty \in 1 .. 4 /\ c = countryPos[p.ty + 1]
                     THEN ptr(IF r = 0 THEN "nocountry" ELSE "FR")
                ELSE IF p.ty \in 1 .. 4 /\ c = regionPos[p.ty + 1] THEN ptr("R1")
                ELSE IF p.ty \in 1 .. 4 /\ c = cityPos[p.ty + 1] THEN ptr("C1")
                ELSE IF p.ty \in 1 .. 4 /\ c = ispPos[p.ty + 1] THEN ptr("I1")
                ELSE U32(0)
  IN  Flatten([c \in 1 .. p.cols |-> LE32(col(c))])

HeaderBytes(p) ==
  <<p.ty % 256, p.cols, 18, 2, 1>> \o LE32(p.count) \o LE32(p.base)
  \o Zeros(8) \o LE32(p.ibase)

File(p) ==
  Let(Poke(Zeros(FileLen(p)), PoolOff(p), Pool), LAMBDA b1 :
  Let(Poke(b1, p.rowAt, Flatten([r \in 1 .. Len(p.froms) |-> RowBytes(p, r - 1)])),
      LAMBDA b2 :
  Let(Poke(b2, p.idxAt, Flatten([i \in 1 .. Len(p.index) |->
                                   LE32(p.index[i][1]) \o LE32(p.index[i][2])])),
      LAMBDA b3 : Poke(b3, 0, HeaderBytes(p)))))

Types == {PX1, PX2, PX3, PX4}

\* bytes of padding that bring inside the file the pointer read for a column
\* the type lacks: its offset in the row is uint8(0 - 1) << 2
PadLen == u8Shl2(u8Dec(0)) + 4

\* well-formed files
GoodFiles ==
  {File(Good(ty, px, 0, 0)) : ty \in Types, px \in ProxyNames}
  \cup {File(Good(ty, "TOR", first, pad)) :
          ty \in Types, first \in {0, 2}, pad \in {0, PadLen}}

TheGood == Good(PX4, "TOR", 0, 0)

\* the well-formed file cut short
TruncatedFiles == {SubSeq(File(TheGood), 1, n) : n \in 0 .. FileLen(TheGood) - 1}

\* a bad header
BadHeaderFiles ==
  {File([TheGood EXCEPT !.ty = t]) : t \in {0, 5, 255}}
  \cup {File([TheGood EXCEPT !.cols = c]) : c \in {0}}
  \cup {File([TheGood EXCEPT !.count = U32(n)]) : n \in {0, 1, 2}}
  \cup {File([TheGood EXCEPT !.ibase = b]) :
          b \in {U32(0), U32(FileLen(TheGood)), U32(FileLen(TheGood) - 8 * NumPrefixes + 1),
                 U32(FileLen(TheGood) - 8 * NumPrefixes + 2), <<65535, 65535>>,
                 <<65535, 65528>>}}
  \cup {File([TheGood EXCEPT !.base = b]) : b \in {U32(0), U32(1), <<65535, 65535>>}}

\* a proxy pointer that leaves the file, or a string that ends at its last byte
BadPointerFiles ==
  {File([Good(ty, "TOR", 0, 0) EXCEPT !.pxAt = a]) :
     ty \in {PX2, PX4},
     a \in {FileLen(TheGood), FileLen(TheGood) + 100, FileLen(TheGood) - 1}}

\* other index entries for prefix 0: one row, an empty range, rows the file
\* does not hold, the whole of uint32
IndexEntries ==
  {<<U32(0), U32(0)>>, <<U32(1), U32(0)>>, <<U32(1), U32(1)>>, <<U32(0), U32(2)>>,
   <<U32(2), U32(9)>>, <<U32(1), <<65535, 65535>>>>, <<U32(0), <<65535, 65535>>>>,
   <<<<32768, 0>>, <<32768, 1>>>>}

BadIndexFiles ==
  {File([Good(PX4, "TOR", first, 0) EXCEPT !.index[1] = e]) :
     e \in IndexEntries, first \in {0, 2}}

\* rows out of order, and two prefixes with the same one-row entry
OddRowFiles ==
  {File([TheGood EXCEPT !.froms = <<U32(0), <<1, 4>>, U32(3), Sentinel>>,
                        !.index = [i \in 1 .. NumPrefixes |->
                                     IF i = 1 THEN <<U32(2), U32(2)>>
                                     ELSE <<U32(1), U32(2)>>]]),
   File([TheGood EXCEPT !.froms = <<U32(0), U32(5), Sentinel, Sentinel>>,
                        !.index = [i \in 1 .. NumPrefixes |-> <<U32(1), U32(1)>>]])}

\* the data section laid over the header: BaseAddr = 1, so row 0 is at offset
\* 0 and its fromAddress is the first four bytes of the header (type, column
\* count, and a date of year 2000, month 0)
OverlaidFiles ==
  {Poke(File([TheGood EXCEPT !.rowAt = 0, !.base = U32(1),
                             !.idxAt = 4 * 24, !.ibase = U32(4 * 24 + 1),
                             !.froms = <<U32(0), <<1, 0>>, <<1, 3>>, Sentinel>>,
                             !.index = [i \in 1 .. NumPrefixes |-> <<U32(0), U32(0)>>],
                             !.pad = 8 * NumPrefixes]),
        2, <<0, 0>>)}

\* column counts around the largest whose row width fits the uint8
\* IPv4ColumnSize, the rows laid out 4 bytes a column
WideCols == {2 ^ 6 - 1, 2 ^ 6, 2 ^ 6 + 1}

WideFiles == {File([TheGood EXCEPT !.cols = c]) : c \in WideCols}

Files ==
  {Unreadable} \cup GoodFiles \cup TruncatedFiles \cup BadHeaderFiles
  \cup BadPointerFiles \cup BadIndexFiles \cup OddRowFiles \cup OverlaidFiles
  \cup WideFiles

(***************************************************************************)
(* The addresses the model looks up.                                       *)
(***************************************************************************)
LowParts == {0, 2, 3, 5, 6, 65535}

IPs == {<<hi, lo>> : hi \in 0 .. NumPrefixes - 1, lo \in LowParts}

\* net.IP values: nil, empty, short, 4 bytes, 5 bytes, IPv4-mapped, IPv6
NetIPs ==
  {NilIP, <<>>, <<1, 2, 3>>, <<0, 0, 0, 5>>, <<0, 1, 0, 3>>, <<0, 0, 0, 5, 9>>,
   V4InV6Prefix \o <<0, 0, 0, 6>>,
   <<32, 1, 13, 184, 0, 0, 0, 0, 0, 0, 0, 0>> \o <<0, 0, 0, 6>>}

\* texts: valid dotted addresses, "289.1.2.3", too few and too many parts,
\* an IPv6 literal, and a text that is no address
Dotteds ==
  {[form |-> "dotted", parts |-> q] :
     q \in {<<0, 0, 0, 5>>, <<0, 1, 0, 3>>, <<289, 1, 2, 3>>, <<1, 2, 3>>,
            <<1, 2, 3, 4, 5>>}}
  \cup {[form |-> "v6", bytes |-> <<32, 1, 13, 184, 0, 0, 0, 0, 0, 0, 0, 0>> \o <<0, 0, 0, 6>>],
        [form |-> "junk"]}

(***************************************************************************)
(* The state: the file on disk, the engine Open returned (NoDB before and  *)
(* after a failed Open), what Open returned, the last lookup call, and      *)
(* whether some lookup so far ended in an error or a panic.                *)
(***************************************************************************)
VARIABLES file, db, opened, openErr, call, failed

vars == <<file, db, opened, openErr, call, failed>>

NoCall == [op |-> "none"]

Init ==
  /\ file \in Files
  /\ db = NoDB
  /\ opened = "new"
  /\ openErr = NoErr
  /\ call = NoCall
  /\ failed = FALSE

DoOpen ==
  /\ opened = "new"
  /\ \E r \in {Open(file)} :
       /\ db' = r.db
       /\ openErr' = r.err
       /\ opened' = IF r.err = NoErr THEN "open"
                    ELSE IF IsPanic(r.err) THEN "panicked" ELSE "failed"
  /\ UNCHANGED <<file, call, failed>>

\* an engine that a failed lookup closes
AfterLookupClosing(d, out) == IF out.err # NoErr THEN NoDB ELSE d

\* the engine after a lookup: no lookup assigns to a field of the DB
AfterLookup(d, out) == d

Lookup(op, arg, out) ==
  /\ call' = [op |-> op, arg |-> arg, out |-> out]
  /\ db' = AfterLookup(db, out)
  /\ failed' = (failed \/ out.err # NoErr)
  /\ UNCHANGED <<file, opened, openErr>>

CallLookupIPV4Num ==
  /\ opened = "open"
  /\ \E ip \in IPs : \E out \in {LookupIPV4Num(db, ip)} : Lookup("Num", ip, out)

CallLookupIPV4 ==
  /\ opened = "open"
  /\ \E ip \in NetIPs : \E out \in {LookupIPV4(db, ip)} : Lookup("IP", ip, out)

CallLookupIPV4Dot ==
  /\ opened = "open"
  /\ \E ip \in Dotteds : \E out \in {LookupIPV4Dot(db, ip)} : Lookup("Dot", ip, out)

Next == DoOpen \/ CallLookupIPV4Num \/ CallLookupIPV4 \/ CallLookupIPV4Dot

Spec == Init /\ [][Next]_vars

(***************************************************************************)
(* What the properties say of a database, read off its bytes: the row      *)
(* range of an address, the rows of the range, their interval bounds.      *)
(***************************************************************************)
\* the last lookup, if it was made on an open database
Looked == opened = "open" /\ call.op # "none"

LookedNum == opened = "open" /\ call.op = "Num"

\* (low, high) = ipv4Indexes[ip >> 16]
RangeOf(d, ip) == d.ipv4Indexes[ip[1]]

\* offset in the buffer of row r
RowAt(d, r) == d.header.BaseAddr[2] - 1 + r * (4 * d.header.Cols)

\* the rows of a range that lies in the buffer with the row after it (empty
\* when low > high); NoRows when some row of it does not
NoRows == {-1}

RowsOf(d, ip) ==
  LET e == RangeOf(d, ip)
  IN  IF u32Gt(e[1], e[2]) THEN {}
      ELSE IF /\ e[1][1] = 0 /\ e[2][1] = 0 /\ d.header.BaseAddr[1] = 0
              /\ d.header.BaseAddr[2] >= 1 /\ d.header.Cols < 64
              /\ RowAt(d, e[2][2] + 1) + 4 <= Len(d.data)
           THEN e[1][2] .. e[2][2]
      ELSE NoRows

fromAddress(d, r) == LittleEndianUint32(d, RowAt(d, r))

\* row r holds ip: fromAddress(r) <= ip <= fromAddress(r + 1)
Holds(d, r, ip) ==
  u32Le(fromAddress(d, r), ip) /\ u32Le(ip, fromAddress(d, r + 1))

Ascending(d, rows) ==
  \A r \in rows : r + 1 \in rows =>
    fromAddress(d, r) # fromAddress(d, r + 1)
    /\ u32Le(fromAddress(d, r), fromAddress(d, r + 1))

\* C1: on a database whose rows in the range of ip's prefix are strictly
\* ascending, a lookup of ip that reads in bounds and whose range has a row
\* holding ip returns a Result (never None) found at a row of the range that
\* holds ip.
C1_RangeSearchFindsTheRow ==
  (/\ LookedNum
   /\ RowsOf(db, call.arg) # NoRows
   /\ Ascending(db, RowsOf(db, call.arg))
   /\ \E r \in RowsOf(db, call.arg) : Holds(db, r, call.arg)
   /\ call.out.err = NoErr)
  => /\ call.out.res # NoResult
     /\ \E r \in RowsOf(db, call.arg) :
          Holds(db, r, call.arg) /\ call.out.pos = U32(RowAt(db, r))

\* the header places the rows in the buffer, one after the other
RowsLaidOut(d) ==
  d.header.BaseAddr[1] = 0 /\ d.header.BaseAddr[2] >= 1 /\ d.header.Cols < 64

\* the row that starts at offset o of the buffer, -1 when no row does
RowOfOffset(d, o) ==
  IF o >= RowAt(d, 0) /\ (o - RowAt(d, 0)) % (4 * d.header.Cols) = 0
  THEN (o - RowAt(d, 0)) \div (4 * d.header.Cols) ELSE -1

InRange(d, ip, r) ==
  r >= 0 /\ u32Le(RangeOf(d, ip)[1], U32(r)) /\ u32Le(U32(r), RangeOf(d, ip)[2])

\* the i-th read of a search took bytes of the buffer
ReadBytes(d, out, i) ==
  out.search[i][1] = 0 /\ out.search[i][2] + 4 <= Len(d.data)

\* the row the i-th read of a search is made for: reads come in pairs, the
\* fromAddress of a row at its offset and its toAddress one row width later
RowReadFor(d, out, i) ==
  RowOfOffset(d, IF i % 2 = 1 THEN out.search[i][2]
                 ELSE out.search[i][2] - 4 * d.header.Cols)

\* C2: during the search for ip every read that takes bytes of the buffer,
\* the fromAddress read and the toAddress read alike, is made for a row r
\* with low <= r <= high, (low, high) the index entry of ip's prefix.
C2_SearchStaysInTheRange ==
  (LookedNum /\ RowsLaidOut(db)) =>
    \A i \in 1 .. Len(call.out.search) :
      ReadBytes(db, call.out, i) => InRange(db, call.arg, RowReadFor(db, call.out, i))

\* C3: when no row of the range of ip's prefix holds ip, the range starting
\* at row 0 or being empty included, the lookup returns no Result and no
\* error.
C3_ExhaustionIsNone ==
  (/\ LookedNum
   /\ RowsOf(db, call.arg) # NoRows
   /\ \A r \in RowsOf(db, call.arg) : ~Holds(db, r, call.arg))
  => call.out.res = NoResult /\ call.out.err = NoErr

\* the row a search resolved to (its offset), NoRow when it found none: a
\* search that fails or finds no row returns the position 0
NoRow == <<-1, -1>>

RowFound(f) == IF f.pos # U32(0) THEN f.pos ELSE NoRow

\* a < c < b
Between(a, c, b) == u32Le(a, c) /\ a # c /\ u32Le(c, b) /\ c # b

\* a and b resolve to the same row and c lies between them
SameRowAround(d, a, c, b) ==
  /\ Between(a, c, b)
  /\ \E ra \in {RowFound(findPosForIPV4(d, a))} :
       ra # NoRow /\ ra = RowFound(findPosForIPV4(d, b))

\* C4 as stated: for all addresses a <= b that resolve to the same row, every
\* address c with a < c < b resolves to that row too.
C4_Contiguity ==
  LookedNum =>
    \A a \in IPs, b \in IPs :
      SameRowAround(db, a, call.arg, b)
        => RowFound(call.out) = RowFound(findPosForIPV4(db, a))

\* the index entry of c's prefix is that of a's and of b's
OneRange(d, a, c, b) == RangeOf(d, a) = RangeOf(d, c) /\ RangeOf(d, b) = RangeOf(d, c)

\* the index entry of c's prefix bounds rows in strictly ascending order, the
\* row at offset pos among them
InAscendingRange(d, c, pos) ==
  /\ RowsLaidOut(d)
  /\ RowsOf(d, c) # NoRows
  /\ Ascending(d, RowsOf(d, c))
  /\ pos[1] = 0 /\ RowOfOffset(d, pos[2]) \in RowsOf(d, c)

\* C4, amended: for all addresses a <= b that resolve to the same row, every
\* address c with a < c < b resolves to that row too, provided the index entry
\* (low, high) of c's prefix is that of a's and b's prefixes, or bounds rows in
\* strictly ascending order of fromAddress with that row among them.
C4_ContiguityInRange ==
  LookedNum =>
    \A a \in IPs, b \in IPs :
      (/\ SameRowAround(db, a, call.arg, b)
       /\ \/ OneRange(db, a, call.arg, b)
          \/ InAscendingRange(db, call.arg, findPosForIPV4(db, a).pos))
        => RowFound(call.out) = RowFound(findPosForIPV4(db, a))

\* c was looked up between an a of another index entry and a b that resolve
\* to one row, and resolved to it
C4_Witness ==
  /\ LookedNum
  /\ \E a \in IPs, b \in IPs :
       /\ SameRowAround(db, a, call.arg, b)
       /\ RangeOf(db, a) # RangeOf(db, call.arg)
       /\ InAscendingRange(db, call.arg, findPosForIPV4(db, a).pos)
       /\ RowFound(call.out) = RowFound(findPosForIPV4(db, a))

\* what the file must be for Open to return an engine: readable, not empty,
\* a type byte in 1..4, a whole header with Cols >= 1 and Count >= 2, and the
\* maxIndexes entries of the index table inside the buffer
OpenOK(f) ==
  /\ f # Unreadable
  /\ Len(f) >= HeaderLen
  /\ f[1] \in 1 .. 4
  /\ f[2] >= 1
  /\ (f[6] >= 2 \/ f[7] # 0 \/ f[8] # 0 \/ f[9] # 0)
  /\ f[24] = 0 /\ f[25] = 0
  /\ f[22] + 256 * f[23] >= 1
  /\ f[22] + 256 * f[23] - 1 + 8 * maxIndexes <= Len(f)

\* C5: Open never panics; it returns an engine (over the bytes of the file)
\* and no error exactly when the file is readable, not empty, typed 1..4,
\* with Cols >= 1, Count >= 2 and the header and all index entries inside
\* the buffer; otherwise it returns an error and no engine.
C5_OpenAllOrNothing ==
  opened # "new" =>
    /\ opened # "panicked"
    /\ (opened = "open") <=> OpenOK(file)
    /\ opened = "open" => (db.open /\ db.data = file /\ openErr = NoErr)
    /\ opened = "failed" => (db = NoDB /\ openErr # NoErr)

\* Open refused a file with a whole, well-typed header
C5_Witness ==
  /\ opened = "failed" /\ db = NoDB
  /\ file # Unreadable /\ Len(file) >= HeaderLen /\ file[1] \in 1 .. 4

\* the field-position table of a field, and whether the type of the database
\* lacks the field (raw position 0)
TableOf(field) ==
  CASE field = "proxy" -> proxytypePos
    [] field = "country" -> countryPos
    [] field = "region" -> regionPos
    [] field = "city" -> cityPos
    [] field = "isp" -> ispPos

Absent(d, field) == TableOf(field)[d.header.Type + 1] = 0

\* C6: a field whose raw position is 0 for the type of the database is never
\* read when a matched row is decoded, its decode does not fail, and it is
\* null in the Result (not-available for the proxy type).
C6_AbsentFieldsAreNotRead ==
  (Looked /\ call.out.searched) =>
    /\ \A i \in 1 .. Len(call.out.steps) :
         Absent(db, call.out.steps[i].field)
           => call.out.steps[i].reads = <<>> /\ call.out.steps[i].err = NoErr
    /\ call.out.res # NoResult =>
         /\ Absent(db, "region") => call.out.res.Region = <<>>
         /\ Absent(db, "city") => call.out.res.City = <<>>
         /\ Absent(db, "isp") => call.out.res.ISP = <<>>
         /\ Absent(db, "proxy") => call.out.res.Proxy = ProxyNA

\* whether the argument of the last lookup is an IPv4 address: a net.IP of 4
\* bytes or of the 16 bytes of the IPv4-mapped form, a text of four numbers
\* <= 255 between dots
WellFormed(c) ==
  CASE c.op = "IP" ->
         /\ c.arg # NilIP
         /\ \/ Len(c.arg) = 4
            \/ Len(c.arg) = 16 /\ SubSeq(c.arg, 1, 12) = V4InV6Prefix
    [] c.op = "Dot" ->
         /\ c.arg.form = "dotted"
         /\ Len(c.arg.parts) = 4
         /\ \A i \in 1 .. 4 : c.arg.parts[i] <= 255
    [] OTHER -> TRUE

\* C7: a lookup of a malformed address returns the error "invalid IP" and no
\* Result, without searching the database and without a panic.
C7_MalformedAddressIsAnError ==
  (Looked /\ ~WellFormed(call)) =>
    /\ call.out.err = <<"invalid IP">>
    /\ call.out.res = NoResult
    /\ ~call.out.searched

\* C8: when a field decode of a matched row fails, the lookup returns an
\* error and no Result; a Result is returned only after all five field
\* decodes succeeded.
C8_DecodeAllOrNothing ==
  (Looked /\ call.out.steps # <<>>) =>
    /\ (\E i \in 1 .. Len(call.out.steps) : call.out.steps[i].err # NoErr)
         => /\ call.out.res = NoResult
            /\ call.out.err # NoErr /\ ~IsPanic(call.out.err)
    /\ call.out.res # NoResult
         => /\ Len(call.out.steps) = 5
            /\ \A i \in 1 .. 5 : call.out.steps[i].err = NoErr

\* the lookup c made on the engine d
Again(d, c) ==
  CASE c.op = "Num" -> LookupIPV4Num(d, c.arg)
    [] c.op = "IP" -> LookupIPV4(d, c.arg)
    [] c.op = "Dot" -> LookupIPV4Dot(d, c.arg)

PoolString(d, p) == SubSeq(d.data, p[2] + 2, p[2] + 1 + d.data[p[2] + 1])

\* the proxy category of a name
CategoryOf(name) ==
  IF name = <<45>> THEN ProxyNOT
  ELSE IF name = <<86, 80, 78>> THEN ProxyVPN
  ELSE IF name = <<84, 79, 82>> THEN ProxyTOR
  ELSE IF name = <<68, 67, 72>> THEN ProxyDCH
  ELSE IF name = <<80, 85, 66>> THEN ProxyPUB
  ELSE IF name = <<87, 69, 66>> THEN ProxyWEB
  ELSE ProxyNA

\* the name the second column of the matched row points to
ProxyNameOf(d, out) == PoolString(d, LittleEndianUint32(d, out.pos[2] + 4))

\* C10: the proxy category of a Result is not-available for type PX1; for the
\* other types it is that of the string the proxy column of the matched row
\* points to: "-" not-proxy, "VPN", "TOR", "DCH", "PUB", "WEB" their own
\* category, every other string, the empty one included, not-available.
C10_ProxyTypeMapping ==
  (Looked /\ call.out.res # NoResult) =>
    call.out.res.Proxy =
      IF db.header.Type = PX1 THEN ProxyNA ELSE CategoryOf(ProxyNameOf(db, call.out))

\* a Result whose proxy string is a name outside the table
C10_Witness ==
  /\ Looked /\ call.out.res # NoResult /\ db.header.Type # PX1
  /\ ProxyNameOf(db, call.out) = <<116, 111, 114>>
  /\ call.out.res.Proxy = ProxyNA

\* the string at pos does not fit the buffer: pos is past its end, or the
\* length byte L at pos has pos + 1 + L > N
StringLeavesBuffer(d, pos) ==
  pos >= Len(d.data) \/ pos + 1 + d.data[pos + 1] > Len(d.data)

\* C11: over a buffer of N bytes readStr(pos) fails with an error, without
\* reading a byte at an index >= N, whenever pos >= N or pos + 1 + L > N for
\* the length byte L at pos; otherwise it returns the L bytes at pos+1 ..
\* pos+L, the empty string when L = 0, and no error.
C11_StringReadStaysInBuffer ==
  opened = "open" =>
    \A pos \in 0 .. Len(db.data) :
      \E r \in {readStr(db, U32(pos))} :
        IF StringLeavesBuffer(db, pos)
        THEN r.err # NoErr /\ ~IsPanic(r.err)
        ELSE /\ r.err = NoErr
             /\ r.val = SubSeq(db.data, pos + 2, pos + 1 + db.data[pos + 1])

\* C12: for every column count c the header parser accepts, the row width the
\* range search uses is c * 4: it is the IPv4ColumnSize of the header, and
\* each toAddress read of a search is at the offset of its fromAddress read
\* plus c * 4.
C12_RowWidthIsFourTimesCols ==
  LookedNum =>
    /\ db.header.IPv4ColumnSize = 4 * db.header.Cols
    /\ \A k \in 1 .. Len(call.out.search) \div 2 :
         call.out.search[2 * k]
           = u32Add(call.out.search[2 * k - 1], U32(4 * db.header.Cols))

=============================================================================
